---- MODULE Spec2Model ----
\* The HashiCups Terraform provider: the order resource (Create, Read, Update,
\* Delete, ImportState) and the coffees data source (Read), as the state
\* machine the host drives: one action per handler invocation.
EXTENDS Integers, Sequences, FiniteSets, TLC

VARIABLES
    state,      \* stored state of the order resource: Absent or an orderResourceModel
    last,       \* the latest handler invocation: its request, remote calls and response
    clock,      \* time.Now(), in seconds
    coffees,    \* stored state of the coffees data source: Absent or a coffeesDataSourceModel
    remote      \* the orders held by the remote API (tracked under SpecFaithful only)

vars == <<state, last, clock, coffees, remote>>

\* ------------------------------------------------------------------ bounds

MaxItems == 2       \* longest item list in a plan or in a client response
MaxClock == 1       \* the clock runs from 0 to MaxClock

\* ------------------------------------------------------------------ values

\* The framework's attribute values (types.String, types.Int64, types.Float64
\* and a list attribute): a state tag beside the Go value, which is the zero
\* value unless the state is known.
StringValue(s) == [state |-> "known", value |-> s]
StringUnknown == [state |-> "unknown", value |-> ""]
StringNull == [state |-> "null", value |-> ""]
Int64Value(n) == [state |-> "known", value |-> n]
Float64Value(x) == [state |-> "known", value |-> x]
Float64Unknown == [state |-> "unknown", value |-> 0]
ListValue(items) == [state |-> "known", value |-> items]
ListNull == [state |-> "null", value |-> <<>>]

\* types.String.ValueString / types.Int64.ValueInt64: the Go value, which is
\* "" or 0 for null and unknown.
ValueString(v) == v.value
ValueInt64(v) == v.value

\* No stored state (the resource is absent); also "no plan", "no order".
Absent == [null |-> TRUE]

OrderIDs == {7, 42}         \* numeric order ids the remote hands out

\* hashicups.Coffee with Go's zero values.
ZeroCoffee ==
    [ID |-> 0, Name |-> "", Teaser |-> "", Description |-> "", Price |-> 0,
     Image |-> "", Ingredient |-> <<>>]

\* The remote's catalog: the server-filled fields of each coffee (prices in
\* cents).
CoffeeOf(id) ==
    IF id = 1
    THEN [ID |-> 1, Name |-> "Packer Spiced Latte", Teaser |-> "Packed with goodness",
          Description |-> "spiced", Price |-> 350, Image |-> "/packer.png",
          Ingredient |-> <<[ID |-> 1], [ID |-> 2]>>]
    ELSE [ID |-> id, Name |-> "Vaulatte", Teaser |-> "Nothing gives you a safe feeling",
          Description |-> "vault", Price |-> 200, Image |-> "/vault.png",
          Ingredient |-> <<>>]

\* The user-specified fields of one desired item: coffee id and quantity.
\* The schema puts no validator on quantity, so a configuration may carry 0.
DesiredItems == {[ID |-> 1, Quantity |-> 2], [ID |-> 2, Quantity |-> 0]}

SeqsUpTo(S, n) == UNION {[1..k -> S] : k \in 0..n}

DesiredLists == SeqsUpTo(DesiredItems, MaxItems)

\* hashicups.OrderItem as the remote returns it: the coffee filled in.
ServerFill(item) == [Coffee |-> CoffeeOf(item.Coffee.ID), Quantity |-> item.Quantity]

WireItems == {[Coffee |-> CoffeeOf(d.ID), Quantity |-> d.Quantity] : d \in DesiredItems}

WireLists == SeqsUpTo(WireItems, MaxItems)

\* hashicups.Order values that CreateOrder / GetOrder may return.
Orders == [ID : OrderIDs, Items : WireLists]

\* The errors a client call may return ("" is nil).
GetErrors == {"NotFoundError", "RemoteError"}

\* What GetCoffees may return.
CoffeeLists == {<<>>, <<CoffeeOf(2), CoffeeOf(1)>>}

\* ------------------------------------------------------------------ conversions

Digit(d) == <<"0", "1", "2", "3", "4", "5", "6", "7", "8", "9">>[d + 1]

RECURSIVE Itoa(_)
\* strconv.Itoa: the decimal string of an int.
Itoa(n) ==
    IF n < 0 THEN "-" \o Itoa(-n)
    ELSE IF n < 10 THEN Digit(n)
    ELSE Itoa(n \div 10) \o Digit(n % 10)

\* time.Now().Format(time.RFC850): the timestamp text of the clock reading.
RFC850(t) == "Thursday, 01-Jan-70 00:00:0" \o Itoa(t) \o " UTC"

\* One item of the plan as the framework decodes it into orderItemModel: the
\* required fields known, the computed coffee fields unknown.
PlanItem(d) ==
    [Coffee |-> [ID |-> Int64Value(d.ID), Name |-> StringUnknown,
                 Teaser |-> StringUnknown, Description |-> StringUnknown,
                 Price |-> Float64Unknown, Image |-> StringUnknown],
     Quantity |-> Int64Value(d.Quantity)]

PlanItems(desired) == [i \in 1..Len(desired) |-> PlanItem(desired[i])]

\* The request body built from the plan: OrderItem{Coffee{ID}, Quantity}, the
\* other coffee fields left at Go's zero values. int(...) of the int64 keeps
\* the value for every id and quantity in the model's range.
ToOrderItem(item) ==
    [Coffee |-> [ZeroCoffee EXCEPT !.ID = ValueInt64(item.Coffee.ID)],
     Quantity |-> ValueInt64(item.Quantity)]

ToOrderItems(items) == [i \in 1..Len(items) |-> ToOrderItem(items[i])]

\* An OrderItem of a response as an orderItemModel, field by field.
FromOrderItem(orderItem) ==
    [Coffee |-> [ID |-> Int64Value(orderItem.Coffee.ID),
                 Name |-> StringValue(orderItem.Coffee.Name),
                 Teaser |-> StringValue(orderItem.Coffee.Teaser),
                 Description |-> StringValue(orderItem.Coffee.Description),
                 Price |-> Float64Value(orderItem.Coffee.Price),
                 Image |-> StringValue(orderItem.Coffee.Image)],
     Quantity |-> Int64Value(orderItem.Quantity)]

\* Read and Update: the list is emptied and rebuilt from the response by
\* append.
FromOrderItems(orderItems) ==
    [i \in 1..Len(orderItems) |-> FromOrderItem(orderItems[i])]

\* Create: plan.Items[orderItemIndex] = ... overwrites the plan's list in
\* place, so entries past the response's length keep the plan's values.
\* (For Len(orderItems) <= Len(planItems); a longer response panics.)
OverwriteItems(planItems, orderItems) ==
    [i \in 1..Len(planItems) |->
        IF i <= Len(orderItems) THEN FromOrderItem(orderItems[i]) ELSE planItems[i]]

\* The user-specified fields of a stored item list: per item the coffee id
\* and the quantity.
UserFields(items) ==
    [i \in 1..Len(items) |->
        [ID |-> items[i].Coffee.ID.value, Quantity |-> items[i].Quantity.value]]

\* ------------------------------------------------------------------ client results

\* A result of a client call: the error ("" is nil) and the order returned.
Failed(e) == [err |-> e, order |-> Absent]
Returned(o) == [err |-> "", order |-> o]

\* One remote call as the handler issued it, with the error it returned.
Call(fn, id, items, err) == [fn |-> fn, id |-> id, items |-> items, err |-> err]

\* A handler invocation: the plan it was given, the client calls it made, the
\* error diagnostics of its response, whether it panicked, and the order it
\* mapped from.
Invocation(op, plan, calls, diags, panicked, order) ==
    [op |-> op, plan |-> plan, calls |-> calls, diags |-> diags,
     panicked |-> panicked, order |-> order]

\* ------------------------------------------------------------------ orderResource.Create

\* request.Plan.Get: id and last_updated are computed and unknown on create.
CreatePlan(desired) ==
    [ID |-> StringUnknown, Items |-> PlanItems(desired), LastUpdated |-> StringUnknown]

\* plan.Items[orderItemIndex] with orderItemIndex past the plan's list: Go
\* panics with index out of range.
CreatePanics(plan, res) ==
    res.err = "" /\ Len(res.order.Items) > Len(plan.Items)

\* A faulty variant of CreateState that saves the plan before calling
\* CreateOrder, so that a failure leaves it behind; C2 must fail with it.
CreateStateSavedEarly(st, plan, res, now) ==
    IF CreatePanics(plan, res)
    THEN st
    ELSE IF res.err # ""
    THEN [ID |-> plan.ID, Items |-> ListValue(plan.Items), LastUpdated |-> plan.LastUpdated]
    ELSE [ID |-> StringValue(Itoa(res.order.ID)),
          Items |-> ListValue(OverwriteItems(plan.Items, res.order.Items)),
          LastUpdated |-> StringValue(RFC850(now))]

\* The stored state after Create: response.State starts out empty and is set
\* only by response.State.Set(ctx, plan).
CreateState(st, plan, res, now) ==
    IF res.err # "" \/ CreatePanics(plan, res)
    THEN st
    ELSE [ID |-> StringValue(Itoa(res.order.ID)),
          Items |-> ListValue(OverwriteItems(plan.Items, res.order.Items)),
          LastUpdated |-> StringValue(RFC850(now))]

CreateDiags(res) == IF res.err # "" THEN 1 ELSE 0

Create(desired, res) ==
    /\ state = Absent
    /\ LET plan == CreatePlan(desired)
           items == ToOrderItems(plan.Items)
       IN /\ state' = CreateState(state, plan, res, clock)
          /\ last' = Invocation("Create", plan,
                                <<Call("CreateOrder", "", items, res.err)>>,
                                CreateDiags(res), CreatePanics(plan, res), res.order)
    /\ UNCHANGED <<clock, coffees>>

\* ------------------------------------------------------------------ orderResource.Read

\* A faulty variant of ReadState that takes the id from the response; C7 must
\* fail with it.
ReadStateWithResponseID(st, res) ==
    IF res.err # ""
    THEN st
    ELSE [st EXCEPT !.ID = StringValue(Itoa(res.order.ID)),
                    !.Items = ListValue(FromOrderItems(res.order.Items))]

\* A faulty variant of ReadState that stamps last_updated as Update does; C10
\* must fail with it.
ReadStateStamped(st, res) ==
    IF res.err # ""
    THEN st
    ELSE [st EXCEPT !.Items = ListValue(FromOrderItems(res.order.Items)),
                    !.LastUpdated = StringValue(RFC850(clock))]

\* The stored state after Read: response.State starts out as the prior state;
\* on success the prior state with its items replaced is set.
ReadState(st, res) ==
    IF res.err # ""
    THEN st
    ELSE [st EXCEPT !.Items = ListValue(FromOrderItems(res.order.Items))]

ReadDiags(res) == IF res.err # "" THEN 1 ELSE 0

Read(res) ==
    /\ state # Absent
    /\ state' = ReadState(state, res)
    /\ last' = Invocation("Read", Absent,
                          <<Call("GetOrder", ValueString(state.ID), <<>>, res.err)>>,
                          ReadDiags(res), FALSE, res.order)
    /\ UNCHANGED <<clock, coffees>>

\* ------------------------------------------------------------------ orderResource.Update

\* req.Plan.Get: id carries the prior state's value (UseStateForUnknown),
\* last_updated is computed and unknown.
UpdatePlan(st, desired) ==
    [ID |-> st.ID, Items |-> PlanItems(desired), LastUpdated |-> StringUnknown]

\* A faulty variant of UpdateState that does not return when GetOrder fails
\* and saves the plan as it stands; C1 must fail with it.
UpdateStateAfterGetFailure(st, plan, updErr, res, now) ==
    IF updErr # ""
    THEN st
    ELSE [ID |-> plan.ID,
          Items |-> ListValue(IF res.err # "" THEN plan.Items
                              ELSE FromOrderItems(res.order.Items)),
          LastUpdated |-> StringValue(RFC850(now))]

\* The stored state after Update: resp.State starts out as the prior state and
\* is set from the plan only after UpdateOrder and GetOrder both succeeded.
UpdateState(st, plan, updErr, res, now) ==
    IF updErr # "" \/ res.err # ""
    THEN st
    ELSE [ID |-> plan.ID,
          Items |-> ListValue(FromOrderItems(res.order.Items)),
          LastUpdated |-> StringValue(RFC850(now))]

\* UpdateOrder, then GetOrder when UpdateOrder succeeded.
UpdateCalls(plan, updErr, res) ==
    LET upd == Call("UpdateOrder", ValueString(plan.ID), ToOrderItems(plan.Items), updErr)
        get == Call("GetOrder", ValueString(plan.ID), <<>>, res.err)
    IN IF updErr # "" THEN <<upd>> ELSE <<upd, get>>

UpdateDiags(updErr, res) == IF updErr # "" \/ res.err # "" THEN 1 ELSE 0

Update(desired, updErr, res) ==
    /\ state # Absent
    /\ LET plan == UpdatePlan(state, desired)
       IN /\ state' = UpdateState(state, plan, updErr, res, clock)
          /\ last' = Invocation("Update", plan, UpdateCalls(plan, updErr, res),
                                UpdateDiags(updErr, res), FALSE,
                                IF updErr # "" THEN Absent ELSE res.order)
    /\ UNCHANGED <<clock, coffees>>

\* ------------------------------------------------------------------ orderResource.Delete

\* A faulty variant of DeleteState that removes the state whatever DeleteOrder
\* returned; C8 must fail with it.
DeleteStateAlways(st, err) == Absent

\* The stored state after Delete: the handler sets nothing; the framework
\* removes the state when the response carries no error diagnostic.
DeleteState(st, err) == IF err # "" THEN st ELSE Absent

DeleteDiags(err) == IF err # "" THEN 1 ELSE 0

Delete(err) ==
    /\ state # Absent
    /\ state' = DeleteState(state, err)
    /\ last' = Invocation("Delete", Absent,
                          <<Call("DeleteOrder", ValueString(state.ID), <<>>, err)>>,
                          DeleteDiags(err), FALSE, Absent)
    /\ UNCHANGED <<clock, coffees>>

\* ------------------------------------------------------------------ orderResource.ImportState

\* resource.ImportStatePassthroughID: the request's id becomes the "id"
\* attribute of an otherwise null state; no client call is made.
ImportedState(id) ==
    [ID |-> StringValue(id), Items |-> ListNull, LastUpdated |-> StringNull]

ImportState(id) ==
    /\ state = Absent
    /\ state' = ImportedState(id)
    /\ last' = Invocation("ImportState", Absent, <<>>, 0, FALSE, Absent)
    /\ UNCHANGED <<clock, coffees>>

\* ------------------------------------------------------------------ coffeesDataSource.Read

\* One hashicups.Coffee as a coffeesModel.
CoffeeState(coffee) ==
    [ID |-> Int64Value(coffee.ID),
     Name |-> StringValue(coffee.Name),
     Teaser |-> StringValue(coffee.Teaser),
     Description |-> StringValue(coffee.Description),
     Price |-> Float64Value(coffee.Price),
     Image |-> StringValue(coffee.Image),
     Ingredients |-> [i \in 1..Len(coffee.Ingredient) |->
                         [ID |-> Int64Value(coffee.Ingredient[i].ID)]]]

\* The data source's stored state after Read.
CoffeesState(st, err, list) ==
    IF err # ""
    THEN st
    ELSE [ID |-> StringValue("placeholder"),
          Coffees |-> [i \in 1..Len(list) |-> CoffeeState(list[i])]]

CoffeesDiags(err) == IF err # "" THEN 1 ELSE 0

CoffeesRead(err, list) ==
    /\ coffees' = CoffeesState(coffees, err, list)
    /\ last' = Invocation("CoffeesRead", Absent,
                          <<Call("GetCoffees", "", <<>>, err)>>,
                          CoffeesDiags(err), FALSE, Absent)
    /\ UNCHANGED <<clock, state>>

\* ------------------------------------------------------------------ time

Tick ==
    /\ clock < MaxClock
    /\ clock' = clock + 1
    /\ UNCHANGED <<state, last, coffees, remote>>

\* ------------------------------------------------------------------ Spec: any client

\* No response is in flight.
NoInvocation == Invocation("none", Absent, <<>>, 0, FALSE, Absent)

Init ==
    /\ state = Absent
    /\ last = NoInvocation
    /\ clock = 0
    /\ coffees = Absent
    /\ remote = {}

ImportIDs == {Itoa(id) : id \in OrderIDs}

CreateResults == {Failed("RemoteError")} \cup {Returned(o) : o \in Orders}
GetResults == {Failed(e) : e \in GetErrors} \cup {Returned(o) : o \in Orders}
Errors == {"", "RemoteError"}

\* The host sends one request at a time: a handler runs once the response of
\* the one before has been taken.
Idle == last.op = "none"

\* The host takes the response in flight; nothing of it is kept but the state.
Return ==
    /\ ~Idle
    /\ last' = NoInvocation
    /\ UNCHANGED <<state, clock, coffees, remote>>

DoCreate == \E d \in DesiredLists, res \in CreateResults :
    Idle /\ Create(d, res) /\ UNCHANGED remote

DoRead == \E res \in GetResults :
    Idle /\ Read(res) /\ UNCHANGED remote

\* GetOrder is called, and has a result, only when UpdateOrder succeeded.
DoUpdate == \E d \in DesiredLists :
    /\ Idle
    /\ \/ Update(d, "RemoteError", Failed("not called"))
       \/ \E res \in GetResults : Update(d, "", res)
    /\ UNCHANGED remote

DoDelete == \E err \in Errors :
    Idle /\ Delete(err) /\ UNCHANGED remote

DoImportState == \E id \in ImportIDs :
    Idle /\ ImportState(id) /\ UNCHANGED remote

DoCoffeesRead == \E err \in Errors, list \in CoffeeLists :
    Idle /\ CoffeesRead(err, list) /\ UNCHANGED remote

Next ==
    \/ DoCreate
    \/ DoRead
    \/ DoUpdate
    \/ DoDelete
    \/ DoImportState
    \/ DoCoffeesRead
    \/ Return
    \/ Tick

Spec == Init /\ [][Next]_vars

\* ------------------------------------------------------------------ SpecFaithful: a remote that stores what it is sent

\* The client against a remote that keeps each order as sent, fills in the
\* coffees from its catalog, and may reject any call.  Here the latest
\* invocation stays on record until the next one replaces it, so that two
\* consecutive invocations can be related.

\* A variant of StoredItems for a remote that keeps the items in reverse
\* order; C6 must fail with it.
StoredItemsReversed(items) ==
    [i \in 1..Len(items) |-> ServerFill(items[Len(items) + 1 - i])]

StoredItems(items) == [i \in 1..Len(items) |-> ServerFill(items[i])]

Lookup(id) == {o \in remote : Itoa(o.ID) = id}

FreeIDs == {id \in OrderIDs : Lookup(Itoa(id)) = {}}

CreateOrder(items) ==
    {Failed("RemoteError")}
        \cup {Returned([ID |-> id, Items |-> StoredItems(items)]) : id \in FreeIDs}

GetOrder(id) ==
    IF Lookup(id) = {}
    THEN {Failed(e) : e \in GetErrors}
    ELSE {Failed("RemoteError")} \cup {Returned(o) : o \in Lookup(id)}

UpdateOrder(id, items) ==
    IF Lookup(id) = {}
    THEN {Failed("RemoteError")}
    ELSE {Failed("RemoteError")}
            \cup {Returned([ID |-> o.ID, Items |-> StoredItems(items)]) : o \in Lookup(id)}

\* Deleting an order that is already absent succeeds.
DeleteOrder(id) == {"", "RemoteError"}

RemoteCreate == \E d \in DesiredLists :
    \E res \in CreateOrder(ToOrderItems(PlanItems(d))) :
        /\ Create(d, res)
        /\ remote' = IF res.err = "" THEN remote \cup {res.order} ELSE remote

RemoteRead ==
    /\ state # Absent
    /\ \E res \in GetOrder(ValueString(state.ID)) : Read(res)
    /\ UNCHANGED remote

RemoteUpdate == \E d \in DesiredLists :
    /\ state # Absent
    /\ \E upd \in UpdateOrder(ValueString(state.ID), ToOrderItems(PlanItems(d))) :
           IF upd.err # ""
           THEN Update(d, upd.err, Failed("not called")) /\ UNCHANGED remote
           ELSE /\ remote' = (remote \ Lookup(ValueString(state.ID))) \cup {upd.order}
                /\ \E res \in {Failed("RemoteError"), Returned(upd.order)} :
                       Update(d, "", res)

RemoteDelete ==
    /\ state # Absent
    /\ \E err \in DeleteOrder(ValueString(state.ID)) :
        /\ Delete(err)
        /\ remote' = IF err = "" THEN remote \ Lookup(ValueString(state.ID)) ELSE remote

RemoteImportState == \E id \in ImportIDs :
    ImportState(id) /\ UNCHANGED remote

RemoteCoffeesRead == \E err \in Errors :
    CoffeesRead(err, <<CoffeeOf(1), CoffeeOf(2)>>) /\ UNCHANGED remote

NextFaithful ==
    \/ RemoteCreate
    \/ RemoteRead
    \/ RemoteUpdate
    \/ RemoteDelete
    \/ RemoteImportState
    \/ RemoteCoffeesRead
    \/ Tick

SpecFaithful == Init /\ [][NextFaithful]_vars

\* ------------------------------------------------------------------ properties

\* Some client call of the invocation returned an error.
AnyCallFailed(inv) == \E i \in 1..Len(inv.calls) : inv.calls[i].err # ""

\* The invocation returned without an error diagnostic and without a panic.
Succeeded(inv) == inv.diags = 0 /\ ~inv.panicked

\* This step is an invocation of the handler op (a Tick leaves `last` alone).
Invoked(op) == last'.op = op /\ clock' = clock

\* C1: an Update on a present order in which UpdateOrder fails, or UpdateOrder
\* succeeds and the follow-up GetOrder fails, leaves the stored state (id,
\* items, last_updated) exactly as it was, and the order stays present.
C1_UpdateFailureKeepsState ==
    [][(state # Absent /\ Invoked("Update") /\ AnyCallFailed(last'))
        => (state' = state /\ state' # Absent)]_vars

\* C1 witness: UpdateOrder succeeded, GetOrder failed, and the order is still
\* stored with the items and timestamp of an earlier Create.
C1_Witness ==
    /\ last.op = "Update"
    /\ Len(last.calls) = 2
    /\ last.calls[1].err = ""
    /\ last.calls[2].err # ""
    /\ state # Absent
    /\ state.LastUpdated.state = "known"
    /\ UserFields(state.Items.value) # UserFields(last.plan.Items)

\* C2: a Create in which CreateOrder fails leaves the order absent (no id, no
\* items, no last_updated written) and reports an error.
C2_CreateFailureStaysAbsent ==
    (last.op = "Create" /\ AnyCallFailed(last))
        => (state = Absent /\ last.diags >= 1)

\* C2 witness: a failed Create of a non-empty order.
C2_Witness ==
    /\ last.op = "Create"
    /\ last.calls[1].err # ""
    /\ Len(last.plan.Items) > 0
    /\ state = Absent
    /\ last.diags = 1

\* C3 (as claimed): a Read whose GetOrder reports NotFoundError removes the
\* stored state; a Read whose GetOrder fails otherwise leaves it unchanged
\* and reports the error.
C3_ReadNotFoundRemovesState ==
    [][(state # Absent /\ Invoked("Read") /\ AnyCallFailed(last'))
        => /\ last'.diags >= 1
           /\ (last'.calls[1].err = "NotFoundError" => state' = Absent)
           /\ (last'.calls[1].err # "NotFoundError" => state' = state)]_vars

\* C4 (as claimed): applying, to a present order, a desired state whose coffee
\* ids and quantities equal those of the apply that just succeeded makes no
\* remote call.
C4_IdenticalApplyMakesNoCall ==
    [][(/\ state # Absent
        /\ last.op \in {"Create", "Update"}
        /\ Succeeded(last)
        /\ Invoked("Update")
        /\ UserFields(last'.plan.Items) = UserFields(last.plan.Items))
        => Len(last'.calls) = 0]_vars

\* C5 (as claimed): after a successful Create the stored id is the decimal
\* string of the response's id and the stored items are the field-by-field
\* mapping of the response's items, same length and order, whatever the
\* response's length.
C5_CreateStoresMappedResponse ==
    (last.op = "Create" /\ Succeeded(last))
        => /\ state # Absent
           /\ state.ID = StringValue(Itoa(last.order.ID))
           /\ state.Items = ListValue(FromOrderItems(last.order.Items))

\* C6: against a remote that stores what it is sent, a successful Create
\* followed by a successful Read stores items whose coffee ids and quantities
\* are, in order, those of the desired state.
C6_CreateReadRoundTrip ==
    [][(/\ last.op = "Create"
        /\ Succeeded(last)
        /\ Invoked("Read")
        /\ Succeeded(last'))
        => UserFields(state'.Items.value) = UserFields(last.plan.Items)]_vars

\* C6 witness: a successful Read has returned the two-item list, of two
\* different items, of a created order (it carries a last_updated) that the
\* remote holds.
C6_Witness ==
    /\ last.op = "Read"
    /\ Succeeded(last)
    /\ state.LastUpdated.state = "known"
    /\ UserFields(state.Items.value)
            = <<[ID |-> 1, Quantity |-> 2], [ID |-> 2, Quantity |-> 0]>>
    /\ \E o \in remote : Itoa(o.ID) = state.ID.value /\ o = last.order

\* C7 (as claimed): the id appears in the stored state only by a successful
\* Create, is never changed while the order is stored, and every remote call
\* of Read, Update and Delete is addressed to it.
C7_IdSetOnlyByCreate ==
    [][/\ (state = Absent /\ state' # Absent)
            => (last'.op = "Create" /\ Succeeded(last'))
       /\ (state # Absent /\ state' # Absent) => state'.ID = state.ID
       /\ (state # Absent /\ clock' = clock /\ last'.op \in {"Read", "Update", "Delete"})
            => \A i \in 1..Len(last'.calls) : last'.calls[i].id = ValueString(state.ID)]_vars

\* C7 (amended): the id appears in the stored state only by a successful
\* Create or by ImportState, is never changed while the order is stored, and
\* every remote call of Read, Update and Delete is addressed to it.
C7_IdSetOnceAndKept ==
    [][/\ (state = Absent /\ state' # Absent)
            => (last'.op \in {"Create", "ImportState"} /\ Succeeded(last'))
       /\ (state # Absent /\ state' # Absent) => state'.ID = state.ID
       /\ (state # Absent /\ clock' = clock /\ last'.op \in {"Read", "Update", "Delete"})
            => \A i \in 1..Len(last'.calls) : last'.calls[i].id = ValueString(state.ID)]_vars

\* C7 witness: a successful Update of order "42" whose GetOrder answered with
\* another order id; the stored id is still "42".
C7_Witness ==
    /\ last.op = "Update"
    /\ Succeeded(last)
    /\ last.order.ID = 7
    /\ state.ID = StringValue("42")
    /\ last.calls[2].id = "42"

\* C8: whenever a client call of a handler returns an error, the response
\* carries an error diagnostic and no stored state changes; a failed Delete
\* leaves the order present.
C8_NoErrorSwallowed ==
    [][(clock' = clock /\ AnyCallFailed(last'))
        => /\ last'.diags >= 1
           /\ state' = state
           /\ coffees' = coffees
           /\ (last'.op = "Delete" => state' # Absent)]_vars

\* C8 witness: a failed Delete, reported, with the order still stored.
C8_Witness ==
    /\ last.op = "Delete"
    /\ last.calls[1].err # ""
    /\ last.diags = 1
    /\ state # Absent

\* C9 (as claimed): no item with a quantity below 1 is sent to the remote by
\* Create or Update, and no stored state holds one.
C9_QuantityAtLeastOne ==
    /\ \A i \in 1..Len(last.calls) : \A j \in 1..Len(last.calls[i].items) :
            last.calls[i].items[j].Quantity >= 1
    /\ (state # Absent
            => \A j \in 1..Len(state.Items.value) :
                    state.Items.value[j].Quantity.value >= 1)

\* C10: last_updated is written only by a successful Create and by a
\* successful Update (UpdateOrder and GetOrder both succeeded), with the time
\* of that call; a Read, successful or failed, leaves id and last_updated as
\* they were.
C10_LastUpdatedFrame ==
    [][/\ (state # Absent /\ Invoked("Read"))
            => /\ state' # Absent
               /\ state'.ID = state.ID
               /\ state'.LastUpdated = state.LastUpdated
       /\ (/\ state' # Absent
           /\ state'.LastUpdated.state = "known"
           /\ (state = Absent \/ state'.LastUpdated # state.LastUpdated))
            => /\ last'.op \in {"Create", "Update"}
               /\ Succeeded(last')
               /\ ~AnyCallFailed(last')
               /\ state'.LastUpdated = StringValue(RFC850(clock))
       /\ (state # Absent /\ state' # Absent /\ state'.LastUpdated # state.LastUpdated)
            => (last'.op = "Update" /\ Len(last'.calls) = 2)]_vars

\* C10 witness: a successful Read at time 1 has replaced the items of an
\* order stamped at time 0, and the stamp is still that of time 0.
C10_Witness ==
    /\ last.op = "Read"
    /\ Succeeded(last)
    /\ clock = 1
    /\ state.LastUpdated = StringValue(RFC850(0))
    /\ state.Items = ListValue(FromOrderItems(last.order.Items))

====
